---- MODULE Spec2Model ----
(***************************************************************************)
(* A model of firestore-metrics: the response normalizer                   *)
(* (cleanResponseTimeSeries) in its two deduplicating variants, and the    *)
(* FirestoreMetrics client (token and project-id caching, request          *)
(* construction, metric calls interleaved at their await points).          *)
(* SpecNormalizer runs the normalizers, Spec the FirestoreMetrics client    *)
(* and SpecMonitoring the FirestoreMonitoring client, whose methods return *)
(* the status of the response with the cleaned series.                     *)
(*                                                                         *)
(* JSON values are tagged tuples so that values of different JavaScript    *)
(* types can be compared: <<"string", s>>, <<"null">>, <<"undefined">>,    *)
(* <<"number", n>>, <<"double", sign, bits>> for a Number too large for an  *)
(* integer of the model, <<"Infinity", sign>>, <<"NaN">>.  A JavaScript    *)
(* object is a sequence of                                                 *)
(* [k, v] pairs in property order (JSON.parse and the object spread keep   *)
(* insertion order for non-integer keys, and JSON.stringify prints in that *)
(* order).  A string that the code inspects character by character         *)
(* (int64Value) is a sequence of one-character strings.                    *)
(***************************************************************************)
EXTENDS Integers, Sequences, FiniteSets, TLC

VARIABLES
    body,        \* normalizer run: the response body handed to the normalizer
    variant,     \* normalizer run: "none" | "structural" | "startTime"
    result,      \* normalizer run: what the normalizer returned or threw
    projectId,   \* FirestoreMetrics.projectId
    accessToken, \* FirestoreMetrics.accessToken
    googleAuth,  \* FirestoreMetrics.googleAuth
    calls,       \* the asynchronous public calls in flight, by slot
    started      \* number of public calls started so far

vars == <<body, variant, result, projectId, accessToken, googleAuth, calls, started>>

normVars == <<body, variant, result>>
clientVars == <<projectId, accessToken, googleAuth, calls, started>>

(***************************************************************************)
(* Bounds of the model.                                                    *)
(***************************************************************************)
\* a response holds at most MaxItems series and points taken together
MaxItems == 4
\* call slots: public asynchronous calls that may be in flight together
MaxCalls == 2
\* public calls started in one behaviour
MaxStarted == 2

(***************************************************************************)
(* JSON values.                                                            *)
(***************************************************************************)
JNull == <<"null">>
JUndefined == <<"undefined">>
JNaN == <<"NaN">>
JStr(s) == <<"string", s>>
JNum(n) == <<"number", n>>

Range(s) == { s[i] : i \in DOMAIN s }

\* obj[key], or undefined
ObjHas(obj, key) == \E i \in DOMAIN obj : obj[i].k = key
ObjGet(obj, key) ==
    IF ObjHas(obj, key)
    THEN obj[CHOOSE i \in DOMAIN obj : obj[i].k = key].v
    ELSE JUndefined
ObjKeys(obj) == { obj[i].k : i \in DOMAIN obj }

\* obj[key] = value: an existing property keeps its place, a new one goes last
ObjSet(obj, key, value) ==
    IF ObjHas(obj, key)
    THEN [ i \in DOMAIN obj |->
             IF obj[i].k = key THEN [k |-> key, v |-> value] ELSE obj[i] ]
    ELSE Append(obj, [k |-> key, v |-> value])

(***************************************************************************)
(* parseInt(string): leading white space is skipped, then an optional      *)
(* sign, then an optional 0x/0X prefix (radix 16), then the longest run of *)
(* digits of the radix; NaN when that run is empty.  The result is a       *)
(* Number: the integer the digits denote, rounded to the nearest IEEE-754  *)
(* double (ties to the even significand; V8 rounds the exact integer, however *)
(* many digits it has), Infinity beyond the range of the                   *)
(* doubles.  The integer is held as its binary digits, most significant    *)
(* first, so that no width of the model's own integers limits it.  -0 is   *)
(* modelled as 0 (the two are === and JSON.stringify prints both as 0).    *)
(***************************************************************************)
DigitVal(c) ==
    CASE c = "0" -> 0 [] c = "1" -> 1 [] c = "2" -> 2 [] c = "3" -> 3
      [] c = "4" -> 4 [] c = "5" -> 5 [] c = "6" -> 6 [] c = "7" -> 7
      [] c = "8" -> 8 [] c = "9" -> 9
      [] c \in {"a", "A"} -> 10 [] c \in {"b", "B"} -> 11
      [] c \in {"c", "C"} -> 12 [] c \in {"d", "D"} -> 13
      [] c \in {"e", "E"} -> 14 [] c \in {"f", "F"} -> 15
      [] OTHER -> 99

\* StrWhiteSpaceChar: the WhiteSpace and LineTerminator characters.  A
\* character a TLA+ string cannot hold is written as its escape.
WhiteSpaceChars ==
    { "\t", "\\v", "\f", " ", "\\u00A0", "\\uFEFF",
      "\\u1680", "\\u2000", "\\u2001", "\\u2002", "\\u2003", "\\u2004",
      "\\u2005", "\\u2006", "\\u2007", "\\u2008", "\\u2009", "\\u200A",
      "\\u202F", "\\u205F", "\\u3000" }

LineTerminatorChars == { "\n", "\r", "\\u2028", "\\u2029" }

StrWhiteSpaceChars == WhiteSpaceChars \cup LineTerminatorChars

\* the first index of s whose element is not in set, Len(s) + 1 if none
FirstOutside(s, set) ==
    LET found == { i \in DOMAIN s : s[i] \notin set }
    IN  IF found = {} THEN Len(s) + 1
        ELSE CHOOSE i \in found : \A j \in found : i <= j

TrimStart(s) == SubSeq(s, FirstOutside(s, StrWhiteSpaceChars), Len(s))

\* the values of the digits of the longest valid prefix
ParseDigits(s, radix) ==
    LET digits == [i \in DOMAIN s |-> DigitVal(s[i])]
        n == FirstOutside(digits, 0..(radix - 1)) - 1
    IN  SubSeq(digits, 1, n)

\* a Number is a double: a small integer, a larger integer by its sign and
\* binary digits, or an infinity
SignificandBits == 53
MaxExponentBits == 1024
SmallBits == 31
JDouble(sign, bits) == <<"double", sign, bits>>
JInfinity(sign) == <<"Infinity", sign>>

StripZeros(ds) == SubSeq(ds, FirstOutside(ds, {0}), Len(ds))

\* digits of an even radix, halved: [q: the quotient's digits, r: the
\* remainder].  The carry into a digit is the parity of the digit before it.
Halve(ds, radix) ==
    [ q |-> [i \in DOMAIN ds |->
               ((IF i = 1 THEN 0 ELSE ds[i - 1] % 2) * radix + ds[i]) \div 2],
      r |-> IF ds = <<>> THEN 0 ELSE ds[Len(ds)] % 2 ]

\* the n lowest binary digits of the integer that the digits denote, and the
\* digits of what is left of it
RECURSIVE LowBits(_, _, _)
LowBits(ds, radix, n) ==
    IF ds = <<>> \/ n = 0 THEN [q |-> ds, bits |-> [i \in 1..n |-> 0]]
    ELSE IF n = 1
    THEN LET h == Halve(ds, radix) IN [q |-> h.q, bits |-> <<h.r>>]
    ELSE LET lo == LowBits(ds, radix, n \div 2)
             hi == LowBits(lo.q, radix, n - n \div 2)
         IN  [q |-> hi.q, bits |-> hi.bits \o lo.bits]

\* the value of a few digits
RECURSIVE DigitsValue(_, _, _)
DigitsValue(ds, radix, acc) ==
    IF ds = <<>> THEN acc ELSE DigitsValue(Tail(ds), radix, acc * radix + Head(ds))

\* the digits taken LimbDigits at a time from the right: the same integer in
\* the radix LimbRadix, which is still even
LimbDigits(radix) == IF radix = 16 THEN 7 ELSE 9
LimbRadix(radix) == IF radix = 16 THEN 268435456 ELSE 1000000000
LimbBits(radix) == IF radix = 16 THEN 28 ELSE 30

ToLimbs(ds, radix) ==
    LET d == StripZeros(ds)
        g == LimbDigits(radix)
        m == (Len(d) + g - 1) \div g
        first == Len(d) - (m - 1) * g
    IN  [ j \in 1..m |->
            DigitsValue(SubSeq(d, IF j = 1 THEN 1 ELSE first + (j - 2) * g + 1,
                               first + (j - 1) * g),
                        radix, 0) ]

\* the binary digits of the integer that the digits denote
ToBits(ds, radix) ==
    LET limbs == ToLimbs(ds, radix)
    IN  StripZeros(LowBits(limbs, LimbRadix(radix), LimbBits(radix) * Len(limbs)).bits)

RECURSIVE BitsValue(_, _)
BitsValue(bits, acc) ==
    IF bits = <<>> THEN acc ELSE BitsValue(Tail(bits), 2 * acc + Head(bits))

\* binary digits plus one
RECURSIVE Increment(_)
Increment(bits) ==
    IF bits = <<>> THEN <<1>>
    ELSE IF bits[Len(bits)] = 0
         THEN SubSeq(bits, 1, Len(bits) - 1) \o <<1>>
         ELSE Increment(SubSeq(bits, 1, Len(bits) - 1)) \o <<0>>

\* the binary digits of the nearest integer whose significand has
\* SignificandBits digits, ties going to the even significand
RoundToDouble(bits) ==
    IF Len(bits) <= SignificandBits THEN bits
    ELSE LET kept == SubSeq(bits, 1, SignificandBits)
             guard == bits[SignificandBits + 1]
             sticky == \E i \in (SignificandBits + 2)..Len(bits) : bits[i] = 1
             up == guard = 1 /\ (sticky \/ kept[SignificandBits] = 1)
         IN  (IF up THEN Increment(kept) ELSE kept)
             \o [i \in 1..(Len(bits) - SignificandBits) |-> 0]

\* 10^309 and 16^256 are at least 2^1024
TooLong(ds, radix) == Len(StripZeros(ds)) > (IF radix = 16 THEN 256 ELSE 309)

ToNumber(sign, bits) ==
    IF Len(bits) > MaxExponentBits THEN JInfinity(sign)
    ELSE IF Len(bits) <= SmallBits THEN JNum(sign * BitsValue(bits, 0))
    ELSE JDouble(sign, bits)

parseInt(str) ==
    LET s1 == TrimStart(str)
        signed == s1 # <<>> /\ Head(s1) \in {"+", "-"}
        sign == IF s1 # <<>> /\ Head(s1) = "-" THEN -1 ELSE 1
        s2 == IF signed THEN Tail(s1) ELSE s1
        hex == Len(s2) >= 2 /\ s2[1] = "0" /\ s2[2] \in {"x", "X"}
        radix == IF hex THEN 16 ELSE 10
        s3 == IF hex THEN SubSeq(s2, 3, Len(s2)) ELSE s2
        ds == ParseDigits(s3, radix)
    IN  IF ds = <<>> THEN JNaN
        ELSE IF TooLong(ds, radix) THEN JInfinity(sign)
        ELSE ToNumber(sign, RoundToDouble(ToBits(ds, radix)))

(***************************************************************************)
(* JSON.stringify, as a sequence of tokens (a token stands for the         *)
(* characters it prints; string escaping keeps a quote inside a string     *)
(* from ending the token), and String.prototype.includes on such texts.    *)
(***************************************************************************)
Punct(p) == <<"punct", p>>

StringifyInterval(interval) ==
    << Punct("{"), <<"key", "startTime">>, JStr(interval.startTime), Punct(","),
       <<"key", "endTime">>, JStr(interval.endTime), Punct("}") >>

\* NaN and the infinities print as null; an interval is the only nested
\* object of a record
StringifyValue(v) ==
    IF v[1] = "object" THEN StringifyInterval(v[2])
    ELSE IF v[1] \in {"NaN", "Infinity"} THEN <<JNull>>
    ELSE <<v>>

RECURSIVE StringifyProps(_, _)
StringifyProps(obj, first) ==
    IF obj = <<>> THEN <<>>
    ELSE LET p == Head(obj) IN
         IF p.v = JUndefined
         THEN StringifyProps(Tail(obj), first)
         ELSE (IF first THEN <<>> ELSE <<Punct(",")>>)
              \o << <<"key", p.k>> >> \o StringifyValue(p.v)
              \o StringifyProps(Tail(obj), FALSE)

StringifyObject(obj) == <<Punct("{")>> \o StringifyProps(obj, TRUE) \o <<Punct("}")>>

RECURSIVE StringifyElems(_, _)
StringifyElems(list, first) ==
    IF list = <<>> THEN <<>>
    ELSE (IF first THEN <<>> ELSE <<Punct(",")>>)
         \o StringifyObject(Head(list)) \o StringifyElems(Tail(list), FALSE)

StringifyList(list) == <<Punct("[")>> \o StringifyElems(list, TRUE) \o <<Punct("]")>>

Includes(text, part) ==
    \E i \in 1..(Len(text) - Len(part) + 1) :
        SubSeq(text, i, i + Len(part) - 1) = part

(***************************************************************************)
(* FirestoreMetrics: the helpers of the normalizer (src/src/index.ts).     *)
(***************************************************************************)
\* mutant: a record is taken to be contained when the list holds a record
\* of the same interval
containsObjectByInterval(obj, list) ==
    \E i \in DOMAIN list : ObjGet(list[i], "interval") = ObjGet(obj, "interval")

\* mutant: a record is taken to be contained when the list holds a record
\* of the same count
containsObjectByCount(obj, list) ==
    \E i \in DOMAIN list : ObjGet(list[i], "count") = ObjGet(obj, "count")

\* JSON.stringify(list).includes(JSON.stringify(obj))
containsObject(obj, list) == Includes(StringifyList(list), StringifyObject(obj))

InvalidValue(v, args) == v = JNull \/ v = JUndefined \/ v \in args

\* mutant: the additional values are not removed
cleanObjectIgnoringArgs(obj, args) == SelectSeq(obj, LAMBDA p : ~InvalidValue(p.v, {}))

\* cleanObject deletes in place; what is left keeps its order
cleanObject(obj, args) == SelectSeq(obj, LAMBDA p : ~InvalidValue(p.v, args))

LabelPlaceholders == { JStr("__unknown__"), JStr("") }

JInterval(interval) == <<"object", interval>>

\* obj with the properties of props written into it, in their order
RECURSIVE ObjSetAll(_, _)
ObjSetAll(obj, props) ==
    IF props = <<>> THEN obj
    ELSE ObjSetAll(ObjSet(obj, Head(props).k, Head(props).v), Tail(props))

\* mutant: the labels are spread after interval and count
PointMetricLabelsLast(labels, point) ==
    ObjSetAll(<< [k |-> "interval", v |-> JInterval(point.interval)],
                 [k |-> "count", v |-> parseInt(point.int64Value)] >>,
              labels)

\* { ...labels, interval: point.interval, count: parseInt(point.value.int64Value) }
PointMetric(labels, point) ==
    ObjSet(ObjSet(labels, "interval", JInterval(point.interval)),
           "count", parseInt(point.int64Value))

\* point.value.int64Value !== "0"
NonZeroPoint(point) == point.int64Value # <<"0">>

\* mutant: the record is put in front of the list
PushMetricFront(list, pointMetric) ==
    IF ~containsObject(pointMetric, list) THEN <<pointMetric>> \o list ELSE list

PushMetric(list, pointMetric) ==
    IF ~containsObject(pointMetric, list) THEN Append(list, pointMetric) ELSE list

RECURSIVE CleanPoints(_, _, _)
CleanPoints(labels, points, cleanTimeSeries) ==
    IF points = <<>> THEN cleanTimeSeries
    ELSE LET point == Head(points) IN
         CleanPoints(labels, Tail(points),
             IF NonZeroPoint(point)
             THEN PushMetric(cleanTimeSeries,
                             PointMetric(cleanObject(labels, LabelPlaceholders), point))
             ELSE cleanTimeSeries)

RECURSIVE CleanSeries(_, _)
CleanSeries(timeSeries, cleanTimeSeries) ==
    IF timeSeries = <<>> THEN cleanTimeSeries
    ELSE CleanSeries(Tail(timeSeries),
                     CleanPoints(Head(timeSeries).labels, Head(timeSeries).points,
                                 cleanTimeSeries))

Returned(list) == [ok |-> TRUE, out |-> list, error |-> "none"]
Thrown(name) == [ok |-> FALSE, out |-> <<>>, error |-> name]

\* mutant: a body that is not JSON is taken for one that lists no series
ParseBodyLenient(b) ==
    IF b.kind = "null" THEN Thrown("TypeError")
    ELSE Returned(IF b.hasTimeSeries THEN b.timeSeries ELSE <<>>)

\* JSON.parse(responseContent), then the read of .timeSeries
ParseBody(b) ==
    IF b.kind = "invalid" THEN Thrown("SyntaxError")
    ELSE IF b.kind = "null" THEN Thrown("TypeError")
    ELSE Returned(IF b.hasTimeSeries THEN b.timeSeries ELSE <<>>)

cleanResponseTimeSeries(b) ==
    LET parsed == ParseBody(b) IN
    IF ~parsed.ok THEN parsed
    ELSE IF ~(b.kind = "object" /\ b.hasTimeSeries) THEN Returned(<<>>)
    ELSE Returned(CleanSeries(b.timeSeries, <<>>))

(***************************************************************************)
(* FirestoreMonitoring: the normalizer that deduplicates by start time     *)
(* (src/unnamed/part_002).  Its records are {interval, count} with count   *)
(* the int64Value string itself; acc is [out, startTimes].                 *)
(***************************************************************************)
StartTimeMetric(point) ==
    << [k |-> "interval", v |-> JInterval(point.interval)],
       [k |-> "count", v |-> <<"chars", point.int64Value>>] >>

\* mutant: the end time is looked up instead of the start time
SeenEndTime(startTimes, point) ==
    \E i \in DOMAIN startTimes : startTimes[i] = point.interval.endTime

SeenStartTime(startTimes, point) ==
    \E i \in DOMAIN startTimes : startTimes[i] = point.interval.startTime

\* mutant: the start time is looked up and noted before the value is tested,
\* so a point of value "0" reserves its start time
RECURSIVE CleanPointsReservingZero(_, _)
CleanPointsReservingZero(points, acc) ==
    IF points = <<>> THEN acc
    ELSE LET point == Head(points) IN
         CleanPointsReservingZero(Tail(points),
             IF SeenStartTime(acc.startTimes, point) THEN acc
             ELSE [out |-> IF NonZeroPoint(point)
                           THEN Append(acc.out, StartTimeMetric(point))
                           ELSE acc.out,
                   startTimes |-> Append(acc.startTimes, point.interval.startTime)])

RECURSIVE CleanPointsByStartTime(_, _)
CleanPointsByStartTime(points, acc) ==
    IF points = <<>> THEN acc
    ELSE LET point == Head(points) IN
         CleanPointsByStartTime(Tail(points),
             IF NonZeroPoint(point) /\ ~SeenStartTime(acc.startTimes, point)
             THEN [out |-> Append(acc.out, StartTimeMetric(point)),
                   startTimes |-> Append(acc.startTimes, point.interval.startTime)]
             ELSE acc)

RECURSIVE CleanSeriesByStartTime(_, _)
CleanSeriesByStartTime(timeSeries, acc) ==
    IF timeSeries = <<>> THEN acc
    ELSE CleanSeriesByStartTime(Tail(timeSeries),
                                CleanPointsByStartTime(Head(timeSeries).points, acc))

cleanResponseTimeSeriesByStartTime(b) ==
    LET parsed == ParseBody(b) IN
    IF ~parsed.ok THEN parsed
    ELSE IF ~(b.kind = "object" /\ b.hasTimeSeries) THEN Returned(<<>>)
    ELSE Returned(CleanSeriesByStartTime(b.timeSeries,
                                         [out |-> <<>>, startTimes |-> <<>>]).out)

(***************************************************************************)
(* The responses the normalizer is run on.                                 *)
(***************************************************************************)
Label(key, value) == [k |-> key, v |-> value]

\* label objects as JSON.parse yields them, in the order the body lists them
LabelSets ==
    { << Label("type", JStr("QUERY")), Label("op", JStr("CREATE")) >>,
      << Label("op", JStr("CREATE")), Label("type", JStr("QUERY")) >>,
      << Label("module", JStr("__unknown__")), Label("version", JStr("")),
         Label("type", JStr("QUERY")) >>,
      << Label("interval", JStr("QUERY")), Label("count", JNull) >> }

Intervals ==
    { [startTime |-> "21:37", endTime |-> "21:38"],
      [startTime |-> "21:37", endTime |-> "21:39"],
      [startTime |-> "21:36", endTime |-> "21:37"] }

\* "0", "48" and "00"
Int64Values == { <<"0">>, <<"4", "8">>, <<"0", "0">> }

\* two int64 values above 2^53 that one double stands for:
\* 9007199254740992 and 9007199254740993
LargeInt64Values ==
    { <<"9", "0", "0", "7", "1", "9", "9", "2", "5", "4", "7", "4", "0", "9", "9", "2">>,
      <<"9", "0", "0", "7", "1", "9", "9", "2", "5", "4", "7", "4", "0", "9", "9", "3">> }

\* the large values are listed at one interval
Points ==
    [interval : Intervals, int64Value : Int64Values]
    \cup [interval : {[startTime |-> "21:37", endTime |-> "21:38"]},
          int64Value : LargeInt64Values]

JsonBody(ts) == [kind |-> "object", hasTimeSeries |-> TRUE, timeSeries |-> ts]
NoTimeSeriesBody == [kind |-> "object", hasTimeSeries |-> FALSE, timeSeries |-> <<>>]
ScalarBody == [kind |-> "scalar", hasTimeSeries |-> FALSE, timeSeries |-> <<>>]
NullBody == [kind |-> "null", hasTimeSeries |-> FALSE, timeSeries |-> <<>>]
InvalidBody == [kind |-> "invalid", hasTimeSeries |-> FALSE, timeSeries |-> <<>>]

NoResult == [ok |-> FALSE, out |-> <<>>, error |-> "not run"]

(***************************************************************************)
(* FirestoreMetrics, the client (src/src/index.ts).  A public asynchronous *)
(* call occupies a slot of calls from its start until its caller has taken *)
(* its outcome; a step of a call runs from one await to the next, and the  *)
(* steps of different calls interleave.                                    *)
(***************************************************************************)
Null == "<null>"

StatusOK == 200
StatusForbidden == 403
Statuses == { StatusOK, StatusForbidden }

\* what the constructor may be given as projectId (Null: not given)
CtorProjectIds == { Null, "", "ctor-project" }
\* the project id and the tokens of the identity provider
AuthProjectId == "auth-project"
ProviderTokens == { "provider-token-1", "provider-token-2" }
\* tokens the caller holds: the accessToken argument, setAccessToken's argument
ArgTokens == { Null, "arg-token" }
SetTokens == { "set-token" }

\* the metric methods modelled and the metric each asks for; the six others
\* (getDeleteCount, ...) differ from these in the metric name alone
Methods == { "getReadCount", "getWriteCount" }
MetricName(method) ==
    IF method = "getReadCount" THEN "document/read_count" ELSE "document/write_count"

TimeRange == [startTime |-> "2023-07-22T08:00:00Z", endTime |-> "2023-07-22T22:42:15Z"]

\* the bodies the monitoring API answers with in the client's runs
ClientBodies ==
    { InvalidBody, NoTimeSeriesBody,
      JsonBody(<< [ labels |-> << Label("type", JStr("QUERY")) >>,
                    points |-> << [ interval |-> [startTime |-> "21:37", endTime |-> "21:38"],
                                    int64Value |-> <<"4", "8">> ] >> ] >>) }

NoRequest == [sent |-> FALSE, projectId |-> Null, filter |-> "none",
              interval |-> TimeRange, authorization |-> <<"none", Null>>]

\* the response fetch resolved with (status 0: none)
NoResponse == [status |-> 0, body |-> NoTimeSeriesBody]

Pending == [state |-> "pending", data |-> <<>>, text |-> Null,
            error |-> "none", message |-> NoTimeSeriesBody, response |-> NoResponse,
            cleaned |-> FALSE]     \* cleanResponseTimeSeries ran on the response

NoCall ==
    [ pc |-> "idle", kind |-> "none", method |-> "none", tokenArg |-> Null,
      overwriteExisting |-> FALSE,
      cachedAtStart |-> FALSE,   \* a token was cached when the call began
      tokenCalls |-> 0,          \* googleAuth.getAccessToken() calls it made
      projectIdCalls |-> 0,      \* googleAuth.getProjectId() calls it made
      requests |-> 0,            \* fetch() calls it made
      request |-> NoRequest,     \* the request it sent
      outcome |-> Pending ]

ClientInit ==
    /\ projectId = Null
    /\ accessToken = Null
    /\ googleAuth = Null
    /\ calls = [c \in 1..MaxCalls |-> NoCall]
    /\ started = 0

\* constructor: this.projectId = params.projectId ?? null
Init ==
    /\ projectId \in CtorProjectIds
    /\ accessToken = Null
    /\ googleAuth = Null
    /\ calls = [c \in 1..MaxCalls |-> NoCall]
    /\ started = 0
    /\ body = NoTimeSeriesBody
    /\ variant = "none"
    /\ result = NoResult

\* metricFilter: encodeURI leaves the letters, "/" and "_" of a metric name as
\* they are
metricFilter(metricName) == <<"filter=metric.type = firestore.googleapis.com/", metricName>>

\* createGoogleAuthInstance
createGoogleAuthInstance == IF googleAuth = Null THEN "GoogleAuth" ELSE googleAuth

\* JavaScript truthiness of this.projectId (a string or null)
Truthy(value) == value # Null /\ value # ""

\* mutant: the provider is asked only when told to overwrite
MustGetTokenIfOverwriting(token, overwriteExisting) == overwriteExisting

\* mutant: overwriteExisting is not looked at, a cached token is always kept
MustGetTokenOnlyIfNull(token, overwriteExisting) == token = Null

\* mutant: a cached token is fetched again whatever overwriteExisting says
MustGetTokenAlways(token, overwriteExisting) == TRUE

\* generateToken: this.accessToken === null || overwriteExisting === true
MustGetToken(token, overwriteExisting) == token = Null \/ overwriteExisting

\* makeRequest: the request handed to fetch, built from this.projectId and
\* this.accessToken as they are when it runs
makeRequest(filter, interval) ==
    [ sent |-> TRUE, projectId |-> projectId, filter |-> filter,
      interval |-> interval, authorization |-> <<"Bearer", accessToken>> ]

\* a call settles: what is kept of it is its kind and its outcome
Returns(call, data, text, response) ==
    [NoCall EXCEPT !.pc = "settled", !.kind = call.kind,
                   !.outcome = [state |-> "returned", data |-> data, text |-> text,
                                error |-> "none", message |-> NoTimeSeriesBody,
                                response |-> response, cleaned |-> FALSE]]

Throws(call, error, message, response) ==
    [NoCall EXCEPT !.pc = "settled", !.kind = call.kind,
                   !.outcome = [state |-> "thrown", data |-> <<>>, text |-> Null,
                                error |-> error, message |-> message,
                                response |-> response, cleaned |-> FALSE]]

\* a call has its response and reads the body: what is kept of it is its
\* kind and the response
Received(call, response) ==
    [NoCall EXCEPT !.pc = "awaitText", !.kind = call.kind,
                   !.outcome = [Pending EXCEPT !.response = response]]

\* getProjectId up to its first await, entered by call (its record so far)
\* with this.accessToken being token: the auth instance is created; a truthy
\* projectId is assigned to itself, otherwise the provider is asked
EnterGetProjectId(c, call, token) ==
    /\ googleAuth' = createGoogleAuthInstance
    /\ accessToken' = token
    /\ projectId' = projectId
    /\ calls' = [calls EXCEPT ![c] =
          IF Truthy(projectId)
          THEN IF call.kind = "getProjectId"
               THEN Returns(call, <<>>, projectId, NoResponse)
               ELSE [call EXCEPT !.pc = "awaitGetProjectId"]
          ELSE [call EXCEPT !.pc = "awaitProviderProjectId",
                            !.projectIdCalls = @ + 1]]

\* generateToken up to its first await
EnterGenerateToken(c, call) ==
    IF MustGetToken(accessToken, call.overwriteExisting)
    THEN /\ googleAuth' = createGoogleAuthInstance
         /\ calls' = [calls EXCEPT ![c] =
               [call EXCEPT !.pc = "awaitAccessToken", !.tokenCalls = @ + 1]]
         /\ UNCHANGED <<projectId, accessToken>>
    ELSE EnterGetProjectId(c, call, accessToken)

\* makeRequest up to its await of fetch
EnterMakeRequest(c, call) ==
    /\ calls' = [calls EXCEPT ![c] =
          [call EXCEPT !.pc = "awaitFetch",
                       !.requests = @ + 1,
                       !.request = makeRequest(metricFilter(MetricName(call.method)),
                                               TimeRange)]]
    /\ UNCHANGED <<projectId, accessToken, googleAuth>>

\* a call takes the first free slot (the slots are interchangeable)
CanStart(c) ==
    /\ calls[c].pc = "idle"
    /\ \A d \in 1..(c - 1) : calls[d].pc # "idle"
    /\ started < MaxStarted

\* getReadCount(startTime, endTime, tokenArg) and its siblings, to the first await
CallMetric(c, method, tokenArg) ==
    /\ CanStart(c)
    /\ started' = started + 1
    /\ LET call == [NoCall EXCEPT !.kind = "metric", !.method = method,
                                  !.tokenArg = tokenArg,
                                  !.cachedAtStart = (accessToken # Null)]
       IN  IF tokenArg = Null
           THEN EnterGenerateToken(c, call)
           ELSE EnterMakeRequest(c, call)
    /\ UNCHANGED normVars

\* generateToken(overwriteExisting), called by the user
CallGenerateToken(c, overwriteExisting) ==
    /\ CanStart(c)
    /\ started' = started + 1
    /\ EnterGenerateToken(c, [NoCall EXCEPT !.kind = "generateToken",
                                            !.overwriteExisting = overwriteExisting,
                                            !.cachedAtStart = (accessToken # Null)])
    /\ UNCHANGED normVars

\* getProjectId(), called by the user
CallGetProjectId(c) ==
    /\ CanStart(c)
    /\ started' = started + 1
    /\ EnterGetProjectId(c, [NoCall EXCEPT !.kind = "getProjectId",
                                           !.cachedAtStart = (accessToken # Null)],
                         accessToken)
    /\ UNCHANGED normVars

\* setAccessToken(token)
SetAccessToken(token) ==
    /\ accessToken' = token
    /\ UNCHANGED <<projectId, googleAuth, calls, started, normVars>>

\* googleAuth.getAccessToken() resolves: the token is stored, then
\* generateToken goes on into getProjectId
ProviderReturnsToken(c, token) ==
    /\ calls[c].pc = "awaitAccessToken"
    /\ EnterGetProjectId(c, calls[c], token)
    /\ UNCHANGED <<started, normVars>>

\* googleAuth.getAccessToken() rejects
ProviderRejectsToken(c) ==
    /\ calls[c].pc = "awaitAccessToken"
    /\ calls' = [calls EXCEPT ![c] = Throws(@, "AuthError", NoTimeSeriesBody, NoResponse)]
    /\ UNCHANGED <<projectId, accessToken, googleAuth, started, normVars>>

\* googleAuth.getProjectId() resolves: this.projectId = (falsy) || the answer
ProviderReturnsProjectId(c) ==
    /\ calls[c].pc = "awaitProviderProjectId"
    /\ projectId' = AuthProjectId
    /\ calls' = [calls EXCEPT ![c] =
          IF @.kind = "getProjectId"
          THEN Returns(@, <<>>, AuthProjectId, NoResponse)
          ELSE [@ EXCEPT !.pc = "awaitGetProjectId"]]
    /\ UNCHANGED <<accessToken, googleAuth, started, normVars>>

\* googleAuth.getProjectId() rejects
ProviderRejectsProjectId(c) ==
    /\ calls[c].pc = "awaitProviderProjectId"
    /\ calls' = [calls EXCEPT ![c] = Throws(@, "AuthError", NoTimeSeriesBody, NoResponse)]
    /\ UNCHANGED <<projectId, accessToken, googleAuth, started, normVars>>

\* generateToken after its await of getProjectId: it returns this.accessToken,
\* to the user or to the metric method that awaits it
AfterGetProjectId(c) ==
    /\ calls[c].pc = "awaitGetProjectId"
    /\ calls' = [calls EXCEPT ![c] =
          IF @.kind = "generateToken"
          THEN Returns(@, <<>>, accessToken, NoResponse)
          ELSE [@ EXCEPT !.pc = "awaitGenerateToken"]]
    /\ UNCHANGED <<projectId, accessToken, googleAuth, started, normVars>>

\* the metric method after its await of generateToken(false): metricFilter,
\* then makeRequest up to fetch
AfterGenerateToken(c) ==
    /\ calls[c].pc = "awaitGenerateToken"
    /\ EnterMakeRequest(c, calls[c])
    /\ UNCHANGED <<started, normVars>>

\* cleanResponseTimeSeries run by a metric method on the body of its response
CleanedOutcome(call, response) ==
    LET cleaned == cleanResponseTimeSeries(response.body)
        settled == IF cleaned.ok
                   THEN Returns(call, cleaned.out, Null, response)
                   ELSE Throws(call, cleaned.error, NoTimeSeriesBody, response)
    IN  [settled EXCEPT !.outcome.cleaned = TRUE]

\* mutant: the status of the response is not looked at
MetricOutcomeIgnoringStatus(call, status, b) ==
    CleanedOutcome(call, [status |-> status, body |-> b])

\* what a metric method makes of the response: makeRequest throws the body of
\* a response that is not 200, cleanResponseTimeSeries runs on the others
MetricOutcome(call, status, b) ==
    LET response == [status |-> status, body |-> b] IN
    IF status # StatusOK
    THEN Throws(call, "Error", b, response)
    ELSE CleanedOutcome(call, response)

\* mutant: a response that is not 200 makes the client forget its token
FetchRespondsInvalidating(c, status, b) ==
    /\ calls[c].pc = "awaitFetch"
    /\ calls' = [calls EXCEPT ![c] =
          Received(@, [status |-> status, body |-> b])]
    /\ accessToken' = IF status # StatusOK THEN Null ELSE accessToken
    /\ UNCHANGED <<projectId, googleAuth, started, normVars>>

\* fetch resolves with a response: the call goes on to read its
\* body (await response.text(), in makeRequest when the status is not 200,
\* in cleanResponseTimeSeries otherwise; no field of the client is read or
\* written on the way)
FetchResponds(c, status, b) ==
    /\ calls[c].pc = "awaitFetch"
    /\ calls' = [calls EXCEPT ![c] =
          Received(@, [status |-> status, body |-> b])]
    /\ UNCHANGED <<projectId, accessToken, googleAuth, started, normVars>>

\* response.text() resolves: makeRequest throws the body, or
\* cleanResponseTimeSeries parses and cleans it and the method returns
ResponseTextResolves(c) ==
    /\ calls[c].pc = "awaitText"
    /\ calls' = [calls EXCEPT ![c] =
          MetricOutcome(@, @.outcome.response.status, @.outcome.response.body)]
    /\ UNCHANGED <<projectId, accessToken, googleAuth, started, normVars>>

\* mutant: a rejected fetch is made once more before the call gives up
FetchRejectsRetrying(c) ==
    /\ calls[c].pc = "awaitFetch"
    /\ IF calls[c].requests < 2
       THEN EnterMakeRequest(c, calls[c])
       ELSE /\ calls' = [calls EXCEPT ![c] =
                  Throws(@, "FetchError", NoTimeSeriesBody, NoResponse)]
            /\ UNCHANGED <<projectId, accessToken, googleAuth>>
    /\ UNCHANGED <<started, normVars>>

\* fetch rejects (no response)
FetchRejects(c) ==
    /\ calls[c].pc = "awaitFetch"
    /\ calls' = [calls EXCEPT ![c] = Throws(@, "FetchError", NoTimeSeriesBody, NoResponse)]
    /\ UNCHANGED <<projectId, accessToken, googleAuth, started, normVars>>

\* the caller takes the outcome of a settled call; its slot is free again
Settle(c) ==
    /\ calls[c].pc = "settled"
    /\ calls' = [calls EXCEPT ![c] = NoCall]
    /\ UNCHANGED <<projectId, accessToken, googleAuth, started, normVars>>

Next ==
    \/ \E c \in 1..MaxCalls, m \in Methods, t \in ArgTokens : CallMetric(c, m, t)
    \/ \E c \in 1..MaxCalls, o \in BOOLEAN : CallGenerateToken(c, o)
    \/ \E c \in 1..MaxCalls : CallGetProjectId(c)
    \/ \E t \in SetTokens : SetAccessToken(t)
    \/ \E c \in 1..MaxCalls, t \in ProviderTokens : ProviderReturnsToken(c, t)
    \/ \E c \in 1..MaxCalls : ProviderRejectsToken(c)
    \/ \E c \in 1..MaxCalls : ProviderReturnsProjectId(c)
    \/ \E c \in 1..MaxCalls : ProviderRejectsProjectId(c)
    \/ \E c \in 1..MaxCalls : AfterGetProjectId(c)
    \/ \E c \in 1..MaxCalls : AfterGenerateToken(c)
    \/ \E c \in 1..MaxCalls, st \in Statuses, b \in ClientBodies : FetchResponds(c, st, b)
    \/ \E c \in 1..MaxCalls : ResponseTextResolves(c)
    \/ \E c \in 1..MaxCalls : FetchRejects(c)
    \/ \E c \in 1..MaxCalls : Settle(c)

Spec == Init /\ [][Next]_vars

(***************************************************************************)
(* The FirestoreMonitoring client, the variant that hands the status of    *)
(* the response to its caller.  The variables are the fields of one        *)
(* FirestoreMonitoring instance and its calls in flight; the constructor   *)
(* is Init.  It asks the provider through the same awaits as above.        *)
(***************************************************************************)
\* the responses fetch resolves with: status, statusText and body
MonitoringResponses ==
    { [status |-> StatusOK, statusText |-> "OK", body |-> b] : b \in ClientBodies }
    \cup { [status |-> StatusForbidden, statusText |-> "Forbidden", body |-> b] :
             b \in ClientBodies }

\* getFirestoreReadCount and its siblings, which differ in the metric name
MonitoringMethods ==
    { "getFirestoreReadCount", "getFirestoreWriteCount", "getFirestoreDeleteCount",
      "getFirestoreSnapshotListeners", "getFirestoreActiveConnections" }

MonitoringMetricName(method) ==
    CASE method = "getFirestoreReadCount" -> "document/read_count"
      [] method = "getFirestoreWriteCount" -> "document/write_count"
      [] method = "getFirestoreDeleteCount" -> "document/delete_count"
      [] method = "getFirestoreSnapshotListeners" -> "network/snapshot_listeners"
      [] method = "getFirestoreActiveConnections" -> "network/active_connections"

\* getProjectId to its await, entered from generateToken (it creates no auth
\* instance in this variant; generateToken has just made one)
MonitoringGetProjectId(c, call) ==
    /\ calls' = [calls EXCEPT ![c] =
          IF Truthy(projectId)
          THEN [call EXCEPT !.pc = "awaitGetProjectId"]
          ELSE [call EXCEPT !.pc = "awaitProviderProjectId",
                            !.projectIdCalls = @ + 1]]
    /\ UNCHANGED <<projectId, accessToken>>

\* makeRequest up to its await of fetch: the request is built from
\* this.projectId and this.accessToken as they are when it runs
MonitoringMakeRequest(c, call) ==
    /\ calls' = [calls EXCEPT ![c] =
          [call EXCEPT !.pc = "awaitFetch",
                       !.requests = @ + 1,
                       !.request =
                          makeRequest(metricFilter(MonitoringMetricName(call.method)),
                                      TimeRange)]]
    /\ UNCHANGED <<projectId, accessToken, googleAuth>>

\* a metric method (startTime, endTime, tokenArg) to its first await:
\* generateToken makes a new auth instance and calls getProjectId
CallMonitoring(c, method, tokenArg) ==
    /\ CanStart(c)
    /\ started' = started + 1
    /\ LET call == [NoCall EXCEPT !.kind = "monitoring",
                                  !.method = method,
                                  !.tokenArg = tokenArg,
                                  !.cachedAtStart = (accessToken # Null)]
       IN  IF tokenArg = Null
           THEN /\ googleAuth' = "GoogleAuth"
                /\ MonitoringGetProjectId(c, call)
           ELSE MonitoringMakeRequest(c, call)
    /\ UNCHANGED normVars

\* generateToken(), called by the user
CallMonitoringGenerateToken(c) ==
    /\ CanStart(c)
    /\ started' = started + 1
    /\ googleAuth' = "GoogleAuth"
    /\ MonitoringGetProjectId(c, [NoCall EXCEPT !.kind = "generateToken",
                                                !.cachedAtStart = (accessToken # Null)])
    /\ UNCHANGED normVars

\* getProjectId(), called by the user: a truthy projectId is returned;
\* otherwise this.googleAuth.getProjectId() is called, which throws a
\* TypeError while no generateToken has made the auth instance
CallMonitoringGetProjectId(c) ==
    /\ CanStart(c)
    /\ started' = started + 1
    /\ LET call == [NoCall EXCEPT !.kind = "getProjectId",
                                  !.cachedAtStart = (accessToken # Null)]
       IN  calls' = [calls EXCEPT ![c] =
              IF Truthy(projectId) THEN Returns(call, <<>>, projectId, NoResponse)
              ELSE IF googleAuth = Null
                   THEN Throws(call, "TypeError", NoTimeSeriesBody, NoResponse)
              ELSE [call EXCEPT !.pc = "awaitProviderProjectId",
                                !.projectIdCalls = @ + 1]]
    /\ UNCHANGED <<projectId, accessToken, googleAuth, normVars>>

\* generateToken has its token and returns it, to the user or to the metric
\* method that awaits it
MonitoringTokenReturned(call, token) ==
    IF call.kind = "generateToken"
    THEN Returns(call, <<>>, token, NoResponse)
    ELSE [call EXCEPT !.pc = "awaitGenerateToken"]

\* generateToken after its await of getProjectId:
\* this.accessToken = this.accessToken || (await googleAuth.getAccessToken())
MonitoringAfterGetProjectId(c) ==
    /\ calls[c].pc = "awaitGetProjectId"
    /\ calls' = [calls EXCEPT ![c] =
          IF accessToken # Null
          THEN MonitoringTokenReturned(@, accessToken)
          ELSE [@ EXCEPT !.pc = "awaitAccessToken", !.tokenCalls = @ + 1]]
    /\ UNCHANGED <<projectId, accessToken, googleAuth, started, normVars>>

\* googleAuth.getAccessToken() resolves: the token is stored and returned
MonitoringProviderReturnsToken(c, token) ==
    /\ calls[c].pc = "awaitAccessToken"
    /\ accessToken' = token
    /\ calls' = [calls EXCEPT ![c] = MonitoringTokenReturned(@, token)]
    /\ UNCHANGED <<projectId, googleAuth, started, normVars>>

\* the metric method after its await of generateToken(): metricFilter, then
\* makeRequest up to fetch
MonitoringAfterGenerateToken(c) ==
    /\ calls[c].pc = "awaitGenerateToken"
    /\ MonitoringMakeRequest(c, calls[c])
    /\ UNCHANGED <<started, normVars>>

\* what the metric method makes of the response: makeRequest returns it
\* whatever its status, cleanResponseTimeSeries runs on its body and the
\* status, the statusText and the cleaned series are returned together
MonitoringOutcome(call, response) ==
    LET cleaned == cleanResponseTimeSeriesByStartTime(response.body)
        settled ==
            IF cleaned.ok
            THEN Returns(call, [status |-> response.status,
                                statusText |-> response.statusText,
                                data |-> cleaned.out], Null, response)
            ELSE Throws(call, cleaned.error, NoTimeSeriesBody, response)
    IN  [settled EXCEPT !.outcome.cleaned = TRUE]

\* fetch resolves with a response: the call holds it and goes on to read its
\* body (await response.text() in cleanResponseTimeSeries)
MonitoringFetchResponds(c, response) ==
    /\ calls[c].pc = "awaitFetch"
    /\ calls' = [calls EXCEPT ![c] =
          Received(@, response)]
    /\ UNCHANGED <<projectId, accessToken, googleAuth, started, normVars>>

\* response.text() resolves: the body is parsed and cleaned, the method returns
MonitoringTextResolves(c) ==
    /\ calls[c].pc = "awaitText"
    /\ calls' = [calls EXCEPT ![c] = MonitoringOutcome(@, @.outcome.response)]
    /\ UNCHANGED <<projectId, accessToken, googleAuth, started, normVars>>

MonitoringNext ==
    \/ \E c \in 1..MaxCalls, m \in MonitoringMethods, t \in ArgTokens :
          CallMonitoring(c, m, t)
    \/ \E c \in 1..MaxCalls : CallMonitoringGenerateToken(c)
    \/ \E c \in 1..MaxCalls : CallMonitoringGetProjectId(c)
    \/ \E c \in 1..MaxCalls : ProviderReturnsProjectId(c)
    \/ \E c \in 1..MaxCalls : ProviderRejectsProjectId(c)
    \/ \E c \in 1..MaxCalls : MonitoringAfterGetProjectId(c)
    \/ \E c \in 1..MaxCalls, t \in ProviderTokens : MonitoringProviderReturnsToken(c, t)
    \/ \E c \in 1..MaxCalls : ProviderRejectsToken(c)
    \/ \E c \in 1..MaxCalls : MonitoringAfterGenerateToken(c)
    \/ \E c \in 1..MaxCalls, r \in MonitoringResponses : MonitoringFetchResponds(c, r)
    \/ \E c \in 1..MaxCalls : MonitoringTextResolves(c)
    \/ \E c \in 1..MaxCalls : FetchRejects(c)
    \/ \E c \in 1..MaxCalls : Settle(c)

SpecMonitoring == Init /\ [][MonitoringNext]_vars

(***************************************************************************)
(* The normalizer on its own: a response body is put together (a body that *)
(* lists time series grows by a series or by a point of its last series,   *)
(* up to MaxItems of them), then one variant is run on it.                 *)
(***************************************************************************)
NormalizerInit ==
    /\ body \in { InvalidBody, NullBody, ScalarBody, NoTimeSeriesBody, JsonBody(<<>>) }
    /\ variant = "none"
    /\ result = NoResult
    /\ ClientInit

RECURSIVE CountPoints(_)
CountPoints(timeSeries) ==
    IF timeSeries = <<>> THEN 0
    ELSE Len(Head(timeSeries).points) + CountPoints(Tail(timeSeries))

Items(b) == Len(b.timeSeries) + CountPoints(b.timeSeries)

ListSeries(l) ==
    /\ variant = "none"
    /\ body.hasTimeSeries
    /\ Items(body) < MaxItems
    /\ body' = JsonBody(Append(body.timeSeries, [labels |-> l, points |-> <<>>]))
    /\ UNCHANGED <<variant, result, clientVars>>

ListPoint(p) ==
    /\ variant = "none"
    /\ body.hasTimeSeries
    /\ body.timeSeries # <<>>
    /\ Items(body) < MaxItems
    /\ LET last == Len(body.timeSeries) IN
       body' = JsonBody([body.timeSeries EXCEPT ![last].points = Append(@, p)])
    /\ UNCHANGED <<variant, result, clientVars>>

CleanStructural ==
    /\ variant = "none"
    /\ variant' = "structural"
    /\ result' = cleanResponseTimeSeries(body)
    /\ UNCHANGED <<body, clientVars>>

CleanByStartTime ==
    /\ variant = "none"
    /\ variant' = "startTime"
    /\ result' = cleanResponseTimeSeriesByStartTime(body)
    /\ UNCHANGED <<body, clientVars>>

NormalizerNext ==
    \/ \E l \in LabelSets : ListSeries(l)
    \/ \E p \in Points : ListPoint(p)
    \/ CleanStructural
    \/ CleanByStartTime

SpecNormalizer == NormalizerInit /\ [][NormalizerNext]_vars

(***************************************************************************)
(* Properties of the normalizer, checked under SpecNormalizer.             *)
(***************************************************************************)
StructuralRun == variant = "structural" /\ result.ok
StartTimeRun == variant = "startTime" /\ result.ok

\* every point of the response in traversal order, with the labels of its series
RECURSIVE TraversalFrom(_, _, _)
TraversalFrom(timeSeries, s, p) ==
    IF s > Len(timeSeries) THEN <<>>
    ELSE IF p > Len(timeSeries[s].points) THEN TraversalFrom(timeSeries, s + 1, 1)
    ELSE << [labels |-> timeSeries[s].labels, point |-> timeSeries[s].points[p]] >>
         \o TraversalFrom(timeSeries, s, p + 1)

Traversal == TraversalFrom(body.timeSeries, 1, 1)

\* the points the normalizers do not skip: int64Value is not the string "0"
Kept == SelectSeq(Traversal, LAMBDA e : e.point.int64Value # <<"0">>)

\* two records hold the same properties with the same values, in whatever order
SameMapping(a, b) ==
    /\ ObjKeys(a) = ObjKeys(b)
    /\ \A key \in ObjKeys(a) : ObjGet(a, key) = ObjGet(b, key)

IsDecimal(s) ==
    LET d == IF s # <<>> /\ Head(s) = "-" THEN Tail(s) ELSE s
    IN  d # <<>> /\ \A i \in DOMAIN d : DigitVal(d[i]) < 10

\* the integer that a string of decimal digits with an optional minus sign
\* denotes, exactly: by its binary digits when it is a large one
DecimalValue(s) ==
    LET sign == IF Head(s) = "-" THEN -1 ELSE 1
        digits == IF Head(s) = "-" THEN Tail(s) ELSE s
        bits == ToBits([i \in DOMAIN digits |-> DigitVal(digits[i])], 10)
    IN  IF Len(bits) <= SmallBits THEN JNum(sign * BitsValue(bits, 0))
        ELSE JDouble(sign, bits)

ValidLabel(v) ==
    v # JNull /\ v # JUndefined /\ v # JStr("__unknown__") /\ v # JStr("")

\* C1: the structural-equality normalizer never emits a record whose count
\* is the integer 0.
C1_NoZeroCount ==
    StructuralRun =>
        \A i \in DOMAIN result.out : ObjGet(result.out[i], "count") # JNum(0)

\* C2: the output of the structural-equality normalizer never holds two
\* structurally identical records, and two kept points with identical
\* interval, identical cleaned label mapping and identical count give exactly
\* one output record.
C2_NoIdenticalRecords ==
    StructuralRun =>
        /\ \A i, j \in DOMAIN result.out :
              i # j => ~SameMapping(result.out[i], result.out[j])
        /\ \A e \in Range(Kept) :
              Cardinality({ i \in DOMAIN result.out :
                  /\ ObjGet(result.out[i], "interval") = JInterval(e.point.interval)
                  /\ ObjGet(result.out[i], "count") = parseInt(e.point.int64Value)
                  /\ \A key \in ObjKeys(result.out[i]) \ {"interval", "count"} :
                        ObjGet(result.out[i], key) = ObjGet(e.labels, key)
                  /\ \A key \in ObjKeys(e.labels) \ {"interval", "count"} :
                        ValidLabel(ObjGet(e.labels, key)) => ObjHas(result.out[i], key)
                  }) = 1

\* the record the structural normalizer builds for each kept point, in order
Mapped ==
    [ n \in DOMAIN Kept |->
        PointMetric(cleanObject(Kept[n].labels, LabelPlaceholders), Kept[n].point) ]

FirstOccurrence(r) ==
    CHOOSE n \in DOMAIN Mapped :
        Mapped[n] = r /\ \A m \in 1..(n - 1) : Mapped[m] # r

\* C3: the records appear in traversal order: each is the record of a kept
\* point, and the first occurrences of the records emitted increase along the
\* output (a subsequence, each record at the place of its first occurrence).
C3_TraversalOrder ==
    StructuralRun =>
        /\ \A i \in DOMAIN result.out : \E n \in DOMAIN Mapped : Mapped[n] = result.out[i]
        /\ \A i, j \in DOMAIN result.out :
              i < j => FirstOccurrence(result.out[i]) < FirstOccurrence(result.out[j])

C3_Witness ==
    /\ StructuralRun
    /\ Len(result.out) >= 2
    /\ Len(Mapped) > Len(result.out)

\* a record made from the point of e: it holds that point's interval and count
MadeFrom(rec, e) ==
    /\ ObjGet(rec, "interval") = JInterval(e.point.interval)
    /\ ObjGet(rec, "count") = parseInt(e.point.int64Value)

\* what C4 asks of a record of e's series, for the label keys in keys
LabelsCarried(rec, e, keys) ==
    /\ \A key \in ObjKeys(e.labels) \cap keys :
          IF ValidLabel(ObjGet(e.labels, key))
          THEN ObjGet(rec, key) = ObjGet(e.labels, key)
          ELSE ~ObjHas(rec, key)

AllLabelKeys == UNION { ObjKeys(l) : l \in LabelSets }

\* C4 as stated: for every series, every label key with a placeholder, empty,
\* null or undefined value is absent from the records of that series, and
\* every other label key is present with its value unchanged.
C4_LabelsCleaned ==
    StructuralRun =>
        \A e \in Range(Kept) :
            \E i \in DOMAIN result.out :
                MadeFrom(result.out[i], e) /\ LabelsCarried(result.out[i], e, AllLabelKeys)

\* C4 as amended: the same for every label key other than "interval" and
\* "count", which hold the point's own data.
C4_LabelsCleanedExceptPointKeys ==
    StructuralRun =>
        \A e \in Range(Kept) :
            \E i \in DOMAIN result.out :
                /\ MadeFrom(result.out[i], e)
                /\ LabelsCarried(result.out[i], e, AllLabelKeys \ {"interval", "count"})

C4_Witness ==
    /\ StructuralRun
    /\ \E e \in Range(Kept) :
          /\ ObjHas(e.labels, "module") /\ ObjHas(e.labels, "version")
          /\ \E i \in DOMAIN result.out :
                /\ MadeFrom(result.out[i], e)
                /\ LabelsCarried(result.out[i], e, AllLabelKeys)
                /\ ObjKeys(result.out[i]) = {"type", "interval", "count"}

\* C5: a valid-JSON body without a timeSeries field gives an empty sequence
\* and no error, in both normalizers.
C5_MissingTimeSeriesIsEmpty ==
    (variant # "none" /\ body.kind # "invalid" /\ ~body.hasTimeSeries) =>
        (result.ok /\ result.out = <<>>)

\* a record is exactly the cleaned labels of e's series, e's interval and
\* the given count
RecordWith(rec, e, count) ==
    /\ ObjKeys(rec) =
          { key \in ObjKeys(e.labels) : ValidLabel(ObjGet(e.labels, key)) }
          \cup {"interval", "count"}
    /\ ObjGet(rec, "interval") = JInterval(e.point.interval)
    /\ ObjGet(rec, "count") = count
    /\ \A key \in ObjKeys(rec) \ {"interval", "count"} :
          ObjGet(rec, key) = ObjGet(e.labels, key)

\* the count is the integer value of e's decimal int64Value
RecordOf(rec, e) == RecordWith(rec, e, DecimalValue(e.point.int64Value))

\* the count is the Number parsed from e's int64Value
ParsedRecordOf(rec, e) == RecordWith(rec, e, parseInt(e.point.int64Value))

\* C6: every record emitted is made of the cleaned labels of a series, the
\* interval of one of its kept points and the integer value of that point's
\* decimal int64Value; every kept point with a decimal value has such a record.
C6_RecordShape ==
    (StructuralRun /\ \A e \in Range(Kept) : IsDecimal(e.point.int64Value)) =>
        /\ \A i \in DOMAIN result.out : \E e \in Range(Kept) : RecordOf(result.out[i], e)
        /\ \A e \in Range(Kept) : \E i \in DOMAIN result.out : RecordOf(result.out[i], e)

StartOf(rec) == ObjGet(rec, "interval")[2].startTime

\* C7: in the start-time normalizer no two records share a start time, and
\* the record of a start time is that of the first kept point that has it.
C7_FirstPerStartTime ==
    StartTimeRun =>
        /\ \A i, j \in DOMAIN result.out :
              i # j => StartOf(result.out[i]) # StartOf(result.out[j])
        /\ \A n \in DOMAIN Kept :
              (\A m \in 1..(n - 1) :
                  Kept[m].point.interval.startTime # Kept[n].point.interval.startTime)
              => \E i \in DOMAIN result.out :
                    /\ ObjGet(result.out[i], "interval") = JInterval(Kept[n].point.interval)
                    /\ ObjGet(result.out[i], "count") = <<"chars", Kept[n].point.int64Value>>
        /\ \A i \in DOMAIN result.out :
              \E n \in DOMAIN Kept :
                  Kept[n].point.interval.startTime = StartOf(result.out[i])

C7_Witness ==
    /\ StartTimeRun
    /\ Len(result.out) >= 2
    /\ \E m, n \in DOMAIN Kept :
          /\ m < n
          /\ Kept[m].point.interval.startTime = Kept[n].point.interval.startTime
          /\ Kept[m].point.interval # Kept[n].point.interval

(***************************************************************************)
(* Properties of the client, checked under Spec.                           *)
(***************************************************************************)
Slots == 1..MaxCalls

\* call c has just built and sent its request
Sends(c) == calls[c].pc # "awaitFetch" /\ calls'[c].pc = "awaitFetch"

\* C8: a metric call given a non-null accessToken argument sends
\* "Bearer " followed by that token.
C8_ArgumentTokenSent ==
    \A c \in Slots :
        (calls[c].request.sent /\ calls[c].tokenArg # Null)
        => calls[c].request.authorization = <<"Bearer", calls[c].tokenArg>>

\* C9: projectId is non-null whenever makeRequest builds a request URL.
C9_ProjectIdLoaded ==
    \A c \in Slots : calls[c].request.sent => calls[c].request.projectId # Null

\* C10: a metric call without an accessToken argument asks the provider for a
\* token only if none was cached when it began, and the request it sends
\* carries the token cached at that moment.
C10_TokenAcquiredOnlyIfNoneCached ==
    /\ [](\A c \in Slots :
            (calls[c].kind = "metric" /\ calls[c].tokenArg = Null)
            => /\ calls[c].cachedAtStart => calls[c].tokenCalls = 0
               /\ calls[c].tokenCalls <= 1)
    /\ [][\A c \in Slots :
            (Sends(c) /\ calls'[c].tokenArg = Null)
            => /\ accessToken # Null
               /\ calls'[c].request.authorization = <<"Bearer", accessToken>>]_vars

C10_Witness ==
    \E c \in Slots :
        /\ calls[c].kind = "metric" /\ calls[c].tokenArg = Null
        /\ calls[c].cachedAtStart
        /\ calls[c].request.sent
        /\ calls[c].tokenCalls = 0
        /\ calls[c].request.authorization = <<"Bearer", accessToken>>

\* a metric call that has settled on a response of the monitoring API
Answered(c) ==
    /\ calls[c].pc = "settled"
    /\ calls[c].kind = "metric"
    /\ calls[c].outcome.response # NoResponse

\* C11: a response whose status is not 200 makes the metric method throw an
\* error whose message is the response body, without running the normalizer
\* and without returning an array; on a 200 response the method returns
\* exactly the array the normalizer returns for the body.
C11_Non200Throws ==
    \A c \in Slots :
        Answered(c) =>
            LET o == calls[c].outcome IN
            IF o.response.status # StatusOK
            THEN /\ o.state = "thrown"
                 /\ o.error = "Error"
                 /\ o.message = o.response.body
                 /\ ~o.cleaned
                 /\ o.data = <<>>
            ELSE /\ o.cleaned
                 /\ cleanResponseTimeSeries(o.response.body).ok =>
                       /\ o.state = "returned"
                       /\ o.data = cleanResponseTimeSeries(o.response.body).out

C11_Witness ==
    \E c \in Slots :
        /\ Answered(c)
        /\ calls[c].outcome.response.status = StatusForbidden
        /\ calls[c].outcome.state = "thrown"
        /\ calls[c].outcome.message = calls[c].outcome.response.body
        /\ calls[c].outcome.message.hasTimeSeries

\* C12: for a response whose status is not 200, whatever its body, the
\* method of the FirestoreMonitoring variant does not throw: it returns
\* {status, statusText, data} with the status and statusText of the response.
C12_EnvelopeOnNon200 ==
    \A c \in Slots :
        ( /\ calls[c].pc = "settled"
          /\ calls[c].kind = "monitoring"
          /\ calls[c].outcome.response # NoResponse
          /\ calls[c].outcome.response.status # StatusOK )
        => /\ calls[c].outcome.state = "returned"
           /\ calls[c].outcome.data.status = calls[c].outcome.response.status
           /\ calls[c].outcome.data.statusText = calls[c].outcome.response.statusText

\* C13: when the body of a 200 response is not valid JSON,
\* cleanResponseTimeSeries throws and the metric method throws that error to
\* its caller: no array is returned, and a call that has received its
\* response settles without another request or another parse.
C13_InvalidJsonPropagates ==
    /\ [](\A c \in Slots :
            ( /\ Answered(c)
              /\ calls[c].outcome.response.status = StatusOK
              /\ calls[c].outcome.response.body.kind = "invalid" )
            => /\ calls[c].outcome.state = "thrown"
               /\ calls[c].outcome.error = "SyntaxError"
               /\ calls[c].outcome.data = <<>>)
    /\ [][\A c \in Slots :
            /\ (calls[c].pc = "awaitFetch" /\ calls'[c].pc # "awaitFetch")
               => \/ calls'[c].pc = "awaitText"
                  \/ calls'[c].pc = "settled" /\ calls'[c].outcome.state = "thrown"
            /\ (calls[c].pc = "awaitText" /\ calls'[c].pc # "awaitText")
               => (calls'[c].pc = "settled" /\ calls'[c].outcome.state # "pending")
            /\ (calls[c].pc = "settled" /\ calls'[c].pc # "settled")
               => calls'[c] = NoCall]_vars

C13_Witness ==
    \E c \in Slots :
        /\ Answered(c)
        /\ calls[c].outcome.response.status = StatusOK
        /\ calls[c].outcome.response.body = InvalidBody
        /\ calls[c].outcome.state = "thrown"
        /\ calls[c].outcome.error = "SyntaxError"

\* call c is a generateToken(true) whose await of the provider's token ends
StoresFreshToken(c) ==
    /\ calls[c].kind = "generateToken"
    /\ calls[c].overwriteExisting
    /\ calls[c].pc = "awaitAccessToken"
    /\ calls'[c].pc # "awaitAccessToken"

\* C14: the token given to setAccessToken stays the cached token until the
\* next setAccessToken or generateToken(true) replaces it, and a metric call
\* without an accessToken argument that begins with a cached token never
\* asks the provider for one and sends "Bearer " followed by the cached token.
C14_SetTokenSentUntilReplaced ==
    /\ [][(accessToken \in SetTokens /\ accessToken' # accessToken)
            => (accessToken' \in SetTokens \/ \E c \in Slots : StoresFreshToken(c))]_vars
    /\ [][\A c \in Slots :
            (Sends(c) /\ calls'[c].kind = "metric" /\ calls'[c].tokenArg = Null)
            => calls'[c].request.authorization = <<"Bearer", accessToken>>]_vars
    /\ [](\A c \in Slots :
            (calls[c].kind = "metric" /\ calls[c].tokenArg = Null /\ calls[c].cachedAtStart)
            => calls[c].tokenCalls = 0)

\* call c is a generateToken call that has begun and not yet settled
Generating(c) ==
    /\ calls[c].kind = "generateToken"
    /\ calls[c].pc \in {"awaitAccessToken", "awaitProviderProjectId", "awaitGetProjectId"}

\* C15: generateToken(true), which is also generateToken(), asks the
\* provider for a token whatever is cached and stores the token it gets;
\* generateToken(false) begun with a cached token does not ask the provider,
\* does not change the cached token and returns the cached token.
C15_GenerateTokenOverwrites ==
    /\ [](\A c \in Slots :
            Generating(c) =>
                IF calls[c].overwriteExisting
                THEN calls[c].tokenCalls = 1
                ELSE calls[c].cachedAtStart => calls[c].tokenCalls = 0)
    /\ [][\A c \in Slots :
            /\ (StoresFreshToken(c) /\ calls'[c].outcome.state # "thrown")
               => accessToken' \in ProviderTokens
            /\ ( /\ Generating(c)
                 /\ ~calls[c].overwriteExisting
                 /\ calls[c].cachedAtStart
                 /\ calls'[c] # calls[c] )
               => /\ accessToken' = accessToken
                  /\ calls'[c].outcome.state = "returned"
                        => calls'[c].outcome.text = accessToken]_vars

C15_Witness ==
    \E c \in Slots :
        /\ Generating(c)
        /\ calls[c].overwriteExisting
        /\ calls[c].cachedAtStart
        /\ calls[c].pc = "awaitGetProjectId"
        /\ calls[c].tokenCalls = 1
        /\ accessToken \in ProviderTokens

\* how far a call has come: each await lies after the ones before it
PcRank(pc) ==
    CASE pc = "idle" -> 0
      [] pc = "awaitAccessToken" -> 1
      [] pc = "awaitProviderProjectId" -> 2
      [] pc = "awaitGetProjectId" -> 3
      [] pc = "awaitGenerateToken" -> 4
      [] pc = "awaitFetch" -> 5
      [] pc = "awaitText" -> 6
      [] pc = "settled" -> 7

\* C16: a metric call makes at most one request and asks the provider for a
\* token at most once; a call never goes back to an await it has left, and a
\* call whose token acquisition, request or parse has failed is settled
\* with that error, having made no further attempt.
C16_NoRetries ==
    /\ [](\A c \in Slots :
            calls[c].kind = "metric" =>
                /\ calls[c].requests <= 1
                /\ calls[c].tokenCalls <= 1
                /\ calls[c].projectIdCalls <= 1)
    /\ [][\A c \in Slots :
            (calls[c].kind = "metric" /\ calls'[c] # calls[c])
            => /\ calls'[c].pc # "idle" => PcRank(calls'[c].pc) > PcRank(calls[c].pc)
               /\ calls'[c].requests <= 1
               /\ calls'[c].outcome.state = "thrown" => calls'[c].pc = "settled"]_vars

C16_Witness ==
    \E c \in Slots :
        /\ calls[c].pc = "settled"
        /\ calls[c].kind = "metric"
        /\ calls[c].outcome.state = "thrown"
        /\ calls[c].outcome.error = "FetchError"

\* C17: projectId is set only while it is null: once it holds a value, given
\* to the constructor or fetched, no call asks the provider for the project
\* id, projectId never changes, and getProjectId returns that value.
C17_ProjectIdSetOnlyIfNull ==
    [][projectId # Null =>
          /\ projectId' = projectId
          /\ \A c \in Slots :
                /\ calls'[c].projectIdCalls <= calls[c].projectIdCalls
                /\ ( /\ calls'[c].kind = "getProjectId"
                     /\ calls[c].outcome.state = "pending"
                     /\ calls'[c].outcome.state = "returned" )
                   => calls'[c].outcome.text = projectId]_vars

(***************************************************************************)
(* The two normalizers on the same response, checked under SpecNormalizer. *)
(***************************************************************************)
\* a response that lists series has been normalized
BothRun == variant # "none" /\ result.ok /\ body.hasTimeSeries

\* what each normalizer returns for the response
StructuralOut == cleanResponseTimeSeries(body).out
StartTimeOut == cleanResponseTimeSeriesByStartTime(body).out

\* the label combination of an entry: its labels without the removed ones
Combination(e) == cleanObject(e.labels, LabelPlaceholders)

\* the first kept point that starts at start
FirstKeptAt(start) ==
    Kept[CHOOSE n \in DOMAIN Kept :
            /\ Kept[n].point.interval.startTime = start
            /\ \A m \in 1..(n - 1) : Kept[m].point.interval.startTime # start]

\* C19: when two series with distinct label combinations each hold a kept
\* point of the same start time, the structural-equality normalizer emits a
\* record for each of the two points, and the start-time normalizer emits
\* one record for that start time, that of the first kept point that has it.
C19_StrategiesDiffer ==
    BothRun =>
        \A m, n \in DOMAIN Kept :
            ( /\ m < n
              /\ Kept[m].point.interval.startTime = Kept[n].point.interval.startTime
              /\ ~SameMapping(Combination(Kept[m]), Combination(Kept[n])) )
            => /\ \E i, j \in DOMAIN StructuralOut :
                     /\ i # j
                     /\ ParsedRecordOf(StructuralOut[i], Kept[m])
                     /\ ParsedRecordOf(StructuralOut[j], Kept[n])
               /\ LET start == Kept[m].point.interval.startTime
                      emitted == { k \in DOMAIN StartTimeOut :
                                      StartOf(StartTimeOut[k]) = start }
                  IN  /\ Cardinality(emitted) = 1
                      /\ \A k \in emitted :
                            StartTimeOut[k] = StartTimeMetric(FirstKeptAt(start).point)

C19_Witness ==
    /\ BothRun
    /\ Len(StartTimeOut) = 1
    /\ Len(StructuralOut) = 2
    /\ \E m, n \in DOMAIN Kept :
          /\ m < n
          /\ Kept[m].point.interval.startTime = Kept[n].point.interval.startTime
          /\ ~SameMapping(Combination(Kept[m]), Combination(Kept[n]))

\* the integer a count stands for: the start-time normalizer keeps the
\* int64Value string, the structural one the number parsed from it
CountValue(v) == IF v[1] = "chars" THEN parseInt(v[2]) ELSE v

\* the (interval, count value) pairs of a list of records
IntervalCounts(list) ==
    [ i \in DOMAIN list |->
        << ObjGet(list[i], "interval"), CountValue(ObjGet(list[i], "count")) >> ]

RECURSIVE IsSubsequence(_, _)
IsSubsequence(a, b) ==
    IF a = <<>> THEN TRUE
    ELSE IF b = <<>> THEN FALSE
    ELSE IF Head(a) = Head(b) THEN IsSubsequence(Tail(a), Tail(b))
    ELSE IsSubsequence(a, Tail(b))

\* C20: the (interval, count value) pairs of the start-time normalizer are
\* a subsequence of those of the structural-equality normalizer on the same
\* response.
C20_StartTimeIsSubsequence ==
    BothRun => IsSubsequence(IntervalCounts(StartTimeOut), IntervalCounts(StructuralOut))

C20_Witness ==
    /\ BothRun
    /\ Len(StartTimeOut) >= 2
    /\ Len(StructuralOut) > Len(StartTimeOut)
    /\ IsSubsequence(IntervalCounts(StartTimeOut), IntervalCounts(StructuralOut))

\* entry n of the traversal is a kept point that follows a point of value
\* "0" of the same start time, and no kept point of that start time precedes it
AfterZeroPoint(n) ==
    /\ Traversal[n].point.int64Value # <<"0">>
    /\ \E z \in 1..(n - 1) :
          /\ Traversal[z].point.int64Value = <<"0">>
          /\ Traversal[z].point.interval.startTime = Traversal[n].point.interval.startTime
    /\ \A m \in 1..(n - 1) :
          Traversal[m].point.interval.startTime = Traversal[n].point.interval.startTime
          => Traversal[m].point.int64Value = <<"0">>

\* C21: in the start-time normalizer a point of int64Value "0" does not
\* reserve its start time: the first kept point of a start time is emitted
\* also when a point of value "0" with that start time precedes it.
C21_ZeroDoesNotReserve ==
    StartTimeRun =>
        \A n \in DOMAIN Traversal :
            AfterZeroPoint(n) =>
                \E i \in DOMAIN result.out :
                    result.out[i] = StartTimeMetric(Traversal[n].point)

C21_Witness ==
    /\ StartTimeRun
    /\ \E n \in DOMAIN Traversal :
          /\ AfterZeroPoint(n)
          /\ Traversal[n].point.int64Value = <<"4", "8">>
          /\ \E i \in DOMAIN result.out :
                result.out[i] = StartTimeMetric(Traversal[n].point)

\* C22: whatever the interleaving of the calls on one instance, every
\* request of a metric call made without an accessToken argument carries a
\* token that is not null (the provider returning tokens that are not null),
\* and neither the cached token nor the project id goes back to null.
C22_NoNullTokenSent ==
    /\ [](\A c \in Slots :
            (calls[c].request.sent /\ calls[c].tokenArg = Null)
            => /\ calls[c].request.authorization[1] = "Bearer"
               /\ calls[c].request.authorization[2] # Null)
    /\ [][/\ accessToken # Null => accessToken' # Null
          /\ projectId # Null => projectId' # Null]_vars

C22_Witness ==
    \E c, d \in Slots :
        /\ c # d
        /\ calls[c].request.sent /\ calls[c].tokenArg = Null
        /\ calls[d].request.sent /\ calls[d].tokenArg = Null
        /\ calls[c].request.authorization # calls[d].request.authorization
        /\ calls[d].request.authorization = <<"Bearer", "set-token">>

\* call c takes a step of its failure on a response whose status is not
\* 200: it receives the response, or it reads the body and throws
FailsOnStatus(c) ==
    /\ calls[c].pc \in {"awaitFetch", "awaitText"}
    /\ calls'[c].pc \in {"awaitText", "settled"}
    /\ calls'[c] # calls[c]
    /\ calls'[c].outcome.response # NoResponse
    /\ calls'[c].outcome.response.status # StatusOK

\* C23: a metric call that fails on a response that is not 200 leaves the
\* cached token and the project id as they were, and a metric call without
\* an accessToken argument that begins with a cached token sends the cached
\* token without asking the provider for another.
C23_FailureKeepsToken ==
    /\ [][\A c \in Slots :
            FailsOnStatus(c) =>
                /\ calls'[c].pc = "settled" => calls'[c].outcome.state = "thrown"
                /\ UNCHANGED <<accessToken, projectId>>]_vars
    /\ [][\A c \in Slots :
            ( /\ Sends(c)
              /\ calls'[c].kind = "metric"
              /\ calls'[c].tokenArg = Null
              /\ calls'[c].cachedAtStart )
            => /\ calls'[c].tokenCalls = 0
               /\ calls'[c].request.authorization = <<"Bearer", accessToken>>]_vars

C23_Witness ==
    \E c, d \in Slots :
        /\ Answered(c)
        /\ calls[c].outcome.state = "thrown"
        /\ calls[c].outcome.response.status = StatusForbidden
        /\ calls[d].kind = "metric" /\ calls[d].tokenArg = Null
        /\ calls[d].cachedAtStart
        /\ calls[d].request.sent
        /\ calls[d].tokenCalls = 0
        /\ accessToken \in ProviderTokens
        /\ calls[d].request.authorization = <<"Bearer", accessToken>>

\* the series of e carries a label named "interval" or "count"
HasPointKeyLabel(e) == ObjHas(e.labels, "interval") \/ ObjHas(e.labels, "count")

\* C24: a label named "interval" or "count" never replaces the point's
\* data: every record emitted holds the interval of a kept point and the
\* number parsed from that point's int64Value, whatever labels its series
\* carries, and every kept point of a series with such a label has its record.
C24_PointDataNotReplaced ==
    StructuralRun =>
        /\ \A i \in DOMAIN result.out :
              /\ ObjGet(result.out[i], "interval")[1] = "object"
              /\ ObjGet(result.out[i], "count")[1] \in {"number", "double", "Infinity", "NaN"}
              /\ \E e \in Range(Kept) : MadeFrom(result.out[i], e)
        /\ \A e \in Range(Kept) :
              HasPointKeyLabel(e) => \E i \in DOMAIN result.out : MadeFrom(result.out[i], e)

C24_Witness ==
    /\ StructuralRun
    /\ \E e \in Range(Kept) :
          /\ ObjGet(e.labels, "interval") = JStr("QUERY")
          /\ ObjHas(e.labels, "count")
          /\ \E i \in DOMAIN result.out :
                /\ MadeFrom(result.out[i], e)
                /\ ObjKeys(result.out[i]) = {"interval", "count"}

====
